---- MODULE Spec2Model ----
(***************************************************************************)
(* Model of the Slack bot of src/main.py: the /add-all bulk-add workflow   *)
(* (command handler, Confirm and Cancel button handlers), the              *)
(* channel_created handler, the /ping command, the auto-join sweep started  *)
(* at process start, and the remote directory they act on.                 *)
(*                                                                         *)
(* Every remote call (client.*, respond, requests.post) is one step of the *)
(* handler that makes it and either returns or raises; handlers run        *)
(* concurrently, so their steps interleave.                                *)
(***************************************************************************)
EXTENDS Integers, Sequences, FiniteSets, TLC

\* ------------------------------------------------------------------ bounds
\* Plain (human, active) workspace members are 1..MaxUsers.
MaxUsers == 2
\* Channels are 1..MaxChannels.
MaxChannels == 3
\* Workspace users deactivated while the workflow runs.
MaxDeactivations == 1
\* Pages of the public-channel listing.
MaxPages == 2

\* The sentinel system user, "USLACKBOT" in the source.
USLACKBOT == 0

Users == 1..MaxUsers
BotId == MaxUsers + 1
DeletedId == MaxUsers + 2
Channels == 1..MaxChannels
\* The Confirm invocations: a Confirm, and a further Confirm for the same prompt
\* (a second click, or a repeated delivery of the action).
ConfirmIds == {1, 2}
\* "no channel id in the event"
NoChannel == 0

\* A member record of users.list: u["id"], u.get("is_bot"), u.get("deleted").
Member(i, b, d) == [id |-> i, is_bot |-> b, deleted |-> d]

\* ------------------------------------------------------------ pure helpers
Range(s) == {s[k] : k \in 1..Len(s)}

Ids(s) == [k \in 1..Len(s) |-> s[k].id]

\* Variant of the filter without the test u["id"] != "USLACKBOT".
IsActiveUser_KeepsSentinel(u) == ~u.is_bot /\ ~u.deleted

\* The filter of both list comprehensions "Filter out bots and deactivated users".
IsActiveUser(u) == ~u.is_bot /\ ~u.deleted /\ u.id # USLACKBOT

\* Variant of /add-all's first filter that returns the members last to first.
AddAllActiveUsers_Reversed(all_users) ==
    LET r == SelectSeq(all_users, IsActiveUser) IN [k \in 1..Len(r) |-> r[Len(r) + 1 - k]]

\* /add-all: active_users = [u for u in all_users if ...]
AddAllActiveUsers(all_users) == SelectSeq(all_users, IsActiveUser)

\* /add-all: users_to_add = [u for u in active_users if u["id"] not in current_members]
AddAllUsersToAdd(all_users, current_members) ==
    SelectSeq(AddAllActiveUsers(all_users), LAMBDA u : u.id \notin current_members)

\* Variant of Confirm's first filter without the test on is_bot.
ConfirmActiveUsers_KeepsBots(all_users) ==
    SelectSeq(all_users, LAMBDA u : ~u.deleted /\ u.id # USLACKBOT)

\* Confirm: active_users = [u for u in all_users if ...]
ConfirmActiveUsers(all_users) == SelectSeq(all_users, IsActiveUser)

\* Variant of Confirm's second filter that ignores the members it fetched.
ConfirmUsersToAdd_IgnoresMembers(all_users, current_members) ==
    SelectSeq(all_users, LAMBDA u : ~u.is_bot /\ ~u.deleted /\ u.id # USLACKBOT)

\* Confirm: users_to_add = [u for u in active_users if u["id"] not in current_members]
ConfirmUsersToAdd(all_users, current_members) ==
    SelectSeq(ConfirmActiveUsers(all_users), LAMBDA u : u.id \notin current_members)

\* Variant of success_msg that states the size of the diff as the added count.
SuccessMsg_CountsAll(added_count, failed_users) ==
    [kind |-> "success", added |-> added_count + Len(failed_users),
     has_failed |-> failed_users # <<>>,
     failed |-> IF failed_users # <<>> THEN Len(failed_users) ELSE 0]

\* success_msg: the added count, and the failed count only "if failed_users".
SuccessMsg(added_count, failed_users) ==
    [kind |-> "success", added |-> added_count,
     has_failed |-> failed_users # <<>>,
     failed |-> IF failed_users # <<>> THEN Len(failed_users) ELSE 0]

\* "Everyone is already here."
AlreadyMsg == [kind |-> "already", added |-> 0, has_failed |-> FALSE, failed |-> 0]

\* One entry of a handler's call log.
Call(op, kind, arg, ok) == [op |-> op, kind |-> kind, arg |-> arg, ok |-> ok]

\* The calls that change the directory: invite, join, channel post.
MutatingOps == {"conversations_invite", "conversations_join", "chat_postMessage"}

Mutations(log) == SelectSeq(log, LAMBDA c : c.op \in MutatingOps)

Invites(log) == SelectSeq(log, LAMBDA c : c.op = "conversations_invite")

\* ------------------------------------------------------------------- state
VARIABLES
    workspace,    \* what users.list returns: the workspace's member records, in listing order
    chanMembers,  \* what conversations.members returns for the channel /add-all was typed in
    botIn,        \* the channels the bot has joined
    prompt,       \* the confirmation message behind response_url, and its Confirm button value
    replies,      \* text replies delivered to the invoking user by respond()
    posts,        \* messages delivered to the channel by chat.postMessage
    addall,       \* the /add-all invocation: position, locals, call log
    confirm,      \* the Confirm invocations: position, locals, call log
    cancel,       \* the Cancel invocation: position, call log
    created,      \* the latest channel_created invocation: position, event's channel id, call log
    ping,         \* the /ping invocation: position, call log
    listing,      \* what conversations.list returns: the pages of public channels
    sweep         \* the auto-join worker started by __main__: position, locals, call log

vars == <<workspace, chanMembers, botIn, prompt, replies, posts, addall, confirm, cancel, created, ping, listing, sweep>>

env == <<workspace, chanMembers, botIn, prompt, replies, posts>>

\* The workspace the workflow runs against: the sentinel, the plain users,
\* a bot and a deactivated account.
BaseWorkspace ==
    <<Member(USLACKBOT, FALSE, FALSE)>>
    \o [k \in 1..MaxUsers |-> Member(k, FALSE, FALSE)]
    \o <<Member(BotId, TRUE, FALSE), Member(DeletedId, FALSE, TRUE)>>

NoPrompt == [state |-> "none", value |-> NoChannel, count |-> 0, mentions |-> <<>>]

IdleAddAll ==
    [pc |-> "idle", channel_id |-> NoChannel, all_users |-> <<>>, current_members |-> {},
     users_to_add |-> <<>>, log |-> <<>>]

IdleConfirm ==
    [pc |-> "idle", channel_id |-> NoChannel, all_users |-> <<>>, current_members |-> {},
     users_to_add |-> <<>>, i |-> 1, added_count |-> 0, failed_users |-> <<>>,
     log |-> <<>>, after_resolved |-> FALSE, invited_before |-> {}]

IdleCancel == [pc |-> "idle", log |-> <<>>]

IdleCreated == [pc |-> "idle", cid |-> NoChannel, log |-> <<>>]

IdlePing == [pc |-> "idle", log |-> <<>>]

\* The worker before join_all_public_channels_async() is called: cursor = None.
\* returned keeps every channel record the listing calls have returned so far.
IdleSweep ==
    [pc |-> "idle", started |-> 0, cursor |-> 0, channels |-> <<>>, k |-> 1,
     next_cursor |-> 0, joined |-> 0, log |-> <<>>, returned |-> <<>>]

Init ==
    /\ workspace = BaseWorkspace
    /\ chanMembers \in SUBSET Users
    /\ botIn = {}
    /\ prompt = NoPrompt
    /\ replies = <<>>
    /\ posts = <<>>
    /\ addall = IdleAddAll
    /\ confirm = [p \in ConfirmIds |-> IdleConfirm]
    /\ cancel = IdleCancel
    /\ created = IdleCreated
    /\ ping = IdlePing
    /\ listing = <<>>
    /\ sweep = IdleSweep

\* -------------------------------------------------------- the environment
\* Another actor adds a workspace user to the channel.
OtherActorAdds(u) ==
    /\ u \notin chanMembers
    /\ chanMembers' = chanMembers \cup {u}
    /\ UNCHANGED <<workspace, botIn, prompt, replies, posts, addall, confirm, cancel, created, ping, listing, sweep>>

\* The plain users deactivated since the start.
Deactivated == {k \in 1..Len(workspace) : workspace[k].id \in Users /\ workspace[k].deleted}

\* An administrator deactivates a workspace user: users.list now flags it deleted.
Deactivate(k) ==
    /\ Cardinality(Deactivated) < MaxDeactivations
    /\ workspace[k].id \in Users
    /\ ~workspace[k].deleted
    /\ workspace' = [workspace EXCEPT ![k].deleted = TRUE]
    /\ UNCHANGED <<chanMembers, botIn, prompt, replies, posts, addall, confirm, cancel, created, ping, listing, sweep>>

\* ------------------------------------------------- /add-all (lines 85-164)
\* Variant of /add-all without the ack() of line 89.
AddAllStart_NoAck(c) ==
    /\ addall.pc = "idle"
    /\ addall' = [addall EXCEPT !.pc = "users_list", !.channel_id = c]
    /\ UNCHANGED <<env, confirm, cancel, created, ping, listing, sweep>>

\* The command arrives in channel c; print, ack(), read channel_id and user_id.
AddAllStart(c) ==
    /\ addall.pc = "idle"
    /\ addall' = [addall EXCEPT !.pc = "users_list", !.channel_id = c,
                                !.log = <<Call("ack", "", 0, TRUE)>>]
    /\ UNCHANGED <<env, confirm, cancel, created, ping, listing, sweep>>

\* users_response = client.users_list(); all_users = users_response["members"]
AddAllUsersList(ok) ==
    /\ addall.pc = "users_list"
    /\ addall' = [addall EXCEPT
            !.pc = IF ok THEN "members" ELSE "except",
            !.all_users = IF ok THEN workspace ELSE @,
            !.log = Append(@, Call("users_list", "", 0, ok))]
    /\ UNCHANGED <<env, confirm, cancel, created, ping, listing, sweep>>

\* Variant of /add-all without the test "if not users_to_add".
AddAllBranch_AlwaysPrompt(users_to_add) == "respond_prompt"

\* "if not users_to_add": the already-complete reply, else the prompt.
AddAllBranch(users_to_add) ==
    IF users_to_add = <<>> THEN "respond_complete" ELSE "respond_prompt"

\* client.conversations_members(channel=channel_id), the two filters, and the
\* branch "if not users_to_add".
AddAllMembers(ok) ==
    /\ addall.pc = "members"
    /\ LET todo == AddAllUsersToAdd(addall.all_users, chanMembers) IN
       addall' = [addall EXCEPT
            !.pc = IF ok THEN AddAllBranch(todo) ELSE "except",
            !.current_members = IF ok THEN chanMembers ELSE @,
            !.users_to_add = IF ok THEN todo ELSE @,
            !.log = Append(@, Call("conversations_members", "", addall.channel_id, ok))]
    /\ UNCHANGED <<env, confirm, cancel, created, ping, listing, sweep>>

\* respond(text="All workspace members are already in this channel!"); return
AddAllRespondComplete(ok) ==
    /\ addall.pc = "respond_complete"
    /\ addall' = [addall EXCEPT
            !.pc = IF ok THEN "done" ELSE "except",
            !.log = Append(@, Call("respond", "complete", 0, ok))]
    /\ replies' = IF ok THEN Append(replies, "complete") ELSE replies
    /\ UNCHANGED <<workspace, chanMembers, botIn, prompt, posts, confirm, cancel, created, ping, listing, sweep>>

\* respond(text=..., blocks=[section with the count and the mentions,
\* Confirm button with value=channel_id, Cancel button])
AddAllRespondPrompt(ok) ==
    /\ addall.pc = "respond_prompt"
    /\ addall' = [addall EXCEPT
            !.pc = IF ok THEN "done" ELSE "except",
            !.log = Append(@, Call("respond", "prompt", 0, ok))]
    /\ prompt' = IF ok
                 THEN [state |-> "shown", value |-> addall.channel_id,
                       count |-> Len(addall.users_to_add),
                       mentions |-> Ids(addall.users_to_add)]
                 ELSE prompt
    /\ UNCHANGED <<workspace, chanMembers, botIn, replies, posts, confirm, cancel, created, ping, listing, sweep>>

\* Variant of /add-all's except branch that swallows the exception.
AddAllExcept_Silent(ok) ==
    /\ addall.pc = "except"
    /\ addall' = [addall EXCEPT !.pc = "done"]
    /\ UNCHANGED <<env, confirm, cancel, created, ping, listing, sweep>>

\* except Exception: print; respond(text="Something went wrong. ...")
\* The reply is outside any try: if it raises, the exception leaves the handler.
AddAllExcept(ok) ==
    /\ addall.pc = "except"
    /\ addall' = [addall EXCEPT
            !.pc = IF ok THEN "done" ELSE "raised",
            !.log = Append(@, Call("respond", "error", 0, ok))]
    /\ replies' = IF ok THEN Append(replies, "error") ELSE replies
    /\ UNCHANGED <<workspace, chanMembers, botIn, prompt, posts, confirm, cancel, created, ping, listing, sweep>>

\* --------------------------------------------- Confirm button (lines 168-239)
\* The ids some Confirm invocation has invited successfully so far.
InvitedOk ==
    {c.arg : c \in UNION {Range(SelectSeq(confirm[q].log,
                 LAMBDA e : e.op = "conversations_invite" /\ e.ok)) : q \in ConfirmIds}}

\* A confirm_add_all action arrives (a click on the prompt's button, or a
\* repeated delivery of one): print, ack(), channel_id = the button's value.
\* Invocations are numbered in the order they arrive.
\* The handler does not look at the prompt's state.
ConfirmStart(p) ==
    /\ confirm[p].pc = "idle"
    /\ \A q \in ConfirmIds : q < p => confirm[q].pc # "idle"
    /\ prompt.state # "none"
    /\ confirm' = [confirm EXCEPT ![p] = [@ EXCEPT
            !.pc = "join", !.channel_id = prompt.value,
            !.log = <<Call("ack", "", 0, TRUE)>>,
            !.after_resolved = prompt.state \in {"deleted", "replaced"},
            !.invited_before = IF prompt.state \in {"deleted", "replaced"}
                               THEN InvitedOk ELSE {}]]
    /\ UNCHANGED <<env, addall, cancel, created, ping, listing, sweep>>

\* Variant of Confirm without the inner try around the join.
ConfirmJoin_FailureAborts(p, ok) ==
    /\ confirm[p].pc = "join"
    /\ confirm' = [confirm EXCEPT ![p] = [@ EXCEPT
            !.pc = IF ok THEN "users_list" ELSE "except",
            !.log = Append(@, Call("conversations_join", "", confirm[p].channel_id, ok))]]
    /\ botIn' = IF ok THEN botIn \cup {confirm[p].channel_id} ELSE botIn
    /\ UNCHANGED <<workspace, chanMembers, prompt, replies, posts, addall, cancel, created, ping, listing, sweep>>

\* try: client.conversations_join(channel=channel_id) except: pass
\* The call is made whether or not the bot is in the channel.
ConfirmJoin(p, ok) ==
    /\ confirm[p].pc = "join"
    /\ confirm' = [confirm EXCEPT ![p] = [@ EXCEPT
            !.pc = "users_list",
            !.log = Append(@, Call("conversations_join", "", confirm[p].channel_id, ok))]]
    /\ botIn' = IF ok THEN botIn \cup {confirm[p].channel_id} ELSE botIn
    /\ UNCHANGED <<workspace, chanMembers, prompt, replies, posts, addall, cancel, created, ping, listing, sweep>>

\* users_response = client.users_list(); all_users = users_response["members"]
ConfirmUsersList(p, ok) ==
    /\ confirm[p].pc = "users_list"
    /\ confirm' = [confirm EXCEPT ![p] = [@ EXCEPT
            !.pc = IF ok THEN "members" ELSE "except",
            !.all_users = IF ok THEN workspace ELSE @,
            !.log = Append(@, Call("users_list", "", 0, ok))]]
    /\ UNCHANGED <<env, addall, cancel, created, ping, listing, sweep>>

\* Variant of Confirm that invites the members the prompt listed.
ConfirmMembers_ReusesPrompt(p, ok) ==
    /\ confirm[p].pc = "members"
    /\ LET todo == [k \in 1..Len(prompt.mentions) |-> Member(prompt.mentions[k], FALSE, FALSE)] IN
       confirm' = [confirm EXCEPT ![p] = [@ EXCEPT
            !.pc = IF ok THEN "invite" ELSE "except",
            !.current_members = IF ok THEN chanMembers ELSE @,
            !.users_to_add = IF ok THEN todo ELSE @,
            !.i = 1, !.added_count = 0, !.failed_users = <<>>,
            !.log = Append(@, Call("conversations_members", "", confirm[p].channel_id, ok))]]
    /\ UNCHANGED <<env, addall, cancel, created, ping, listing, sweep>>

\* "if not users_to_add": delete the prompt and report, else the invite loop.
ConfirmBranch(users_to_add) ==
    IF users_to_add = <<>> THEN "delete_empty" ELSE "invite"

\* client.conversations_members(channel=channel_id), the two filters, the branch
\* "if not users_to_add", and added_count = 0, failed_users = [].
ConfirmMembers(p, ok) ==
    /\ confirm[p].pc = "members"
    /\ LET todo == ConfirmUsersToAdd(confirm[p].all_users, chanMembers) IN
       confirm' = [confirm EXCEPT ![p] = [@ EXCEPT
            !.pc = IF ok THEN ConfirmBranch(todo) ELSE "except",
            !.current_members = IF ok THEN chanMembers ELSE @,
            !.users_to_add = IF ok THEN todo ELSE @,
            !.i = 1, !.added_count = 0, !.failed_users = <<>>,
            !.log = Append(@, Call("conversations_members", "", confirm[p].channel_id, ok))]]
    /\ UNCHANGED <<env, addall, cancel, created, ping, listing, sweep>>

\* Variant of the loop that ends after its first pass.
AfterInvite_StopsEarly(i, users_to_add) == "delete"

\* Where the for loop goes after the step for users_to_add[i].
AfterInvite(i, users_to_add) == IF i < Len(users_to_add) THEN "invite" ELSE "delete"

\* One pass of "for user in users_to_add": the invite, and added_count += 1
\* or failed_users.append(user["id"]).
ConfirmInvite(p, ok) ==
    /\ confirm[p].pc = "invite"
    /\ LET user == confirm[p].users_to_add[confirm[p].i] IN
       /\ confirm' = [confirm EXCEPT ![p] = [@ EXCEPT
               !.pc = AfterInvite(confirm[p].i, confirm[p].users_to_add),
               !.i = @ + 1,
               !.added_count = IF ok THEN @ + 1 ELSE @,
               !.failed_users = IF ok THEN @ ELSE Append(@, user.id),
               !.log = Append(@, Call("conversations_invite", "", user.id, ok))]]
       /\ chanMembers' = IF ok THEN chanMembers \cup {user.id} ELSE chanMembers
    /\ UNCHANGED <<workspace, botIn, prompt, replies, posts, addall, cancel, created, ping, listing, sweep>>

\* requests.post(response_url, json={"delete_original": True}), in either branch.
ConfirmDelete(p, ok) ==
    /\ confirm[p].pc \in {"delete_empty", "delete"}
    /\ confirm' = [confirm EXCEPT ![p] = [@ EXCEPT
            !.pc = IF ~ok THEN "except"
                   ELSE IF confirm[p].pc = "delete_empty" THEN "post_empty" ELSE "post",
            !.log = Append(@, Call("requests_post", "delete_original", 0, ok))]]
    /\ prompt' = IF ok THEN [prompt EXCEPT !.state = "deleted"] ELSE prompt
    /\ UNCHANGED <<workspace, chanMembers, botIn, replies, posts, addall, cancel, created, ping, listing, sweep>>

\* Variant of Confirm without the branch "if not users_to_add".
ConfirmMessage_AlwaysSuccess(pc, added_count, failed_users) ==
    [kind |-> "success", added |-> added_count, has_failed |-> failed_users # <<>>,
     failed |-> Len(failed_users)]

\* The text handed to chat_postMessage in the branch the handler is in.
ConfirmMessage(pc, added_count, failed_users) ==
    IF pc = "post_empty" THEN AlreadyMsg ELSE SuccessMsg(added_count, failed_users)

\* client.chat_postMessage(channel=channel_id, text=...); return / print
ConfirmPost(p, ok) ==
    /\ confirm[p].pc \in {"post_empty", "post"}
    /\ LET msg == ConfirmMessage(confirm[p].pc, confirm[p].added_count,
                                 confirm[p].failed_users) IN
       /\ confirm' = [confirm EXCEPT ![p] = [@ EXCEPT
               !.pc = IF ok THEN "done" ELSE "except",
               !.log = Append(@, Call("chat_postMessage", msg.kind, confirm[p].channel_id, ok))]]
       /\ posts' = IF ok THEN Append(posts, [by |-> p, channel |-> confirm[p].channel_id,
                                             msg |-> msg])
                         ELSE posts
    /\ UNCHANGED <<workspace, chanMembers, botIn, prompt, replies, addall, cancel, created, ping, listing, sweep>>

\* except Exception: print; requests.post(response_url, {"replace_original": True,
\* "text": "Error: I may not be in this channel. ..."}).
\* The post is outside any try: if it raises, the exception leaves the handler.
ConfirmExcept(p, ok) ==
    /\ confirm[p].pc = "except"
    /\ confirm' = [confirm EXCEPT ![p] = [@ EXCEPT
            !.pc = IF ok THEN "done" ELSE "raised",
            !.log = Append(@, Call("requests_post", "replace_original", 0, ok))]]
    /\ prompt' = IF ok THEN [prompt EXCEPT !.state = "replaced"] ELSE prompt
    /\ UNCHANGED <<workspace, chanMembers, botIn, replies, posts, addall, cancel, created, ping, listing, sweep>>

\* ---------------------------------------------- Cancel button (lines 243-255)
\* A click on the Cancel button of the prompt: print, ack(), read response_url.
CancelStart ==
    /\ cancel.pc = "idle"
    /\ prompt.state = "shown"
    /\ cancel' = [cancel EXCEPT !.pc = "delete", !.log = <<Call("ack", "", 0, TRUE)>>]
    /\ UNCHANGED <<env, addall, confirm, created, ping, listing, sweep>>

\* Variant of Cancel whose post does not remove the prompt.
CancelDelete_KeepsPrompt(ok) ==
    /\ cancel.pc = "delete"
    /\ cancel' = [cancel EXCEPT
            !.pc = IF ok THEN "done" ELSE "raised",
            !.log = Append(@, Call("requests_post", "delete_original", 0, ok))]
    /\ UNCHANGED <<env, addall, confirm, created, ping, listing, sweep>>

\* requests.post(response_url, json={"delete_original": True}); print.
\* There is no try around it: if it raises, the exception leaves the handler.
CancelDelete(ok) ==
    /\ cancel.pc = "delete"
    /\ cancel' = [cancel EXCEPT
            !.pc = IF ok THEN "done" ELSE "raised",
            !.log = Append(@, Call("requests_post", "delete_original", 0, ok))]
    /\ prompt' = IF ok THEN [prompt EXCEPT !.state = "deleted"] ELSE prompt
    /\ UNCHANGED <<workspace, chanMembers, botIn, replies, posts, addall, confirm, created, ping, listing, sweep>>

\* ------------------------------------------- channel_created (lines 259-268)
\* Variant of the handler that tries the join again when it has failed.
HandleChannelCreated_Retries(cid, ok) ==
    /\ sweep.started > 0
    /\ cid = NoChannel => ok
    /\ created' = [pc |-> "done", cid |-> cid,
                   log |-> IF cid = NoChannel THEN <<>>
                           ELSE IF ok THEN <<Call("conversations_join", "", cid, TRUE)>>
                           ELSE <<Call("conversations_join", "", cid, FALSE),
                                  Call("conversations_join", "", cid, TRUE)>>]
    /\ botIn' = IF cid # NoChannel THEN botIn \cup {cid} ELSE botIn
    /\ UNCHANGED <<workspace, chanMembers, prompt, replies, posts, addall, confirm, cancel,
                   ping, listing, sweep>>

\* The whole handler: cid = event.get("channel", {}).get("id"); if cid: join it;
\* any exception is caught and printed. Events are served by app.start(), which
\* __main__ calls after it has started the sweep.
HandleChannelCreated(cid, ok) ==
    /\ sweep.started > 0
    /\ cid = NoChannel => ok
    /\ created' = [pc |-> "done", cid |-> cid,
                   log |-> IF cid = NoChannel THEN <<>>
                           ELSE <<Call("conversations_join", "", cid, ok)>>]
    /\ botIn' = IF cid # NoChannel /\ ok THEN botIn \cup {cid} ELSE botIn
    /\ UNCHANGED <<workspace, chanMembers, prompt, replies, posts, addall, confirm, cancel,
                   ping, listing, sweep>>

\* ------------------------------------------------------ /ping (lines 63-71)
\* The command arrives: print, ack().
PingStart ==
    /\ ping.pc = "idle"
    /\ ping' = [ping EXCEPT !.pc = "respond", !.log = <<Call("ack", "", 0, TRUE)>>]
    /\ UNCHANGED <<env, addall, confirm, cancel, created, listing, sweep>>

\* respond("Pong!"); print. There is no try around it.
PingRespond(ok) ==
    /\ ping.pc = "respond"
    /\ ping' = [ping EXCEPT
            !.pc = IF ok THEN "done" ELSE "raised",
            !.log = Append(@, Call("respond", "pong", 0, ok))]
    /\ replies' = IF ok THEN Append(replies, "pong") ELSE replies
    /\ UNCHANGED <<workspace, chanMembers, botIn, prompt, posts, addall, confirm, cancel,
                   created, listing, sweep>>

\* ------------------------- join_all_public_channels_async (lines 32-58, 287)
\* A channel record of conversations.list: ch.get("id"), ch.get("is_member"),
\* ch.get("is_archived"). is_member is the bot's membership when the page is served.
Channel(i, m, a) == [id |-> i, is_member |-> m, is_archived |-> a]

\* resp of conversations_list(cursor=cursor): the page after the cursor and
\* the cursor of the next page, empty (0) on the last page. None is 0 too.
ListResponse(cursor) ==
    LET page == listing[cursor + 1] IN
    [channels |-> [j \in 1..Len(page) |->
                      Channel(page[j].id, page[j].id \in botIn, page[j].is_archived)],
     next_cursor |-> IF cursor + 1 < Len(listing) THEN cursor + 1 ELSE 0]

\* if ch.get("is_member") or ch.get("is_archived"): continue
Skipped(ch) == ch.is_member \/ ch.is_archived

\* The position of the next channel of the page, from k on, that the loop
\* tries to join; Len(channels) + 1 when the for loop ends.
NextToJoin(channels, k) ==
    IF \E j \in k..Len(channels) : ~Skipped(channels[j])
    THEN CHOOSE j \in k..Len(channels) :
            ~Skipped(channels[j]) /\ \A h \in k..(j - 1) : Skipped(channels[h])
    ELSE Len(channels) + 1

\* Variant of the loop without "if not cursor: break".
SweepAdvance_NeverBreaks(w, channels, k, next_cursor) ==
    LET j == NextToJoin(channels, k) IN
    IF j <= Len(channels)
    THEN [w EXCEPT !.pc = "join", !.channels = channels, !.k = j, !.next_cursor = next_cursor]
    ELSE [w EXCEPT !.pc = "list",
                   !.channels = channels, !.k = j, !.next_cursor = next_cursor,
                   !.cursor = next_cursor]

\* Where the worker is at its next remote call, or at its end: the for loop
\* from position k, then cursor = next_cursor and "if not cursor: break".
SweepAdvance(w, channels, k, next_cursor) ==
    LET j == NextToJoin(channels, k) IN
    IF j <= Len(channels)
    THEN [w EXCEPT !.pc = "join", !.channels = channels, !.k = j, !.next_cursor = next_cursor]
    ELSE [w EXCEPT !.pc = IF next_cursor # 0 THEN "list" ELSE "done",
                   !.channels = channels, !.k = j, !.next_cursor = next_cursor,
                   !.cursor = next_cursor]

\* __main__: join_all_public_channels_async() starts the worker thread, then
\* app.start() serves events.
Main ==
    /\ sweep.pc = "idle"
    /\ sweep' = [sweep EXCEPT !.pc = "list", !.started = @ + 1]
    /\ UNCHANGED <<env, addall, confirm, cancel, created, ping, listing>>

\* Variant of the worker that passes over a page whose listing call raised.
SweepList_SkipsFailedPage(ok) ==
    /\ sweep.pc = "list"
    /\ LET w == [sweep EXCEPT !.log = Append(@, Call("conversations_list", "", sweep.cursor, ok))]
           resp == ListResponse(sweep.cursor)
       IN  sweep' = IF ok THEN SweepAdvance([w EXCEPT !.returned = @ \o resp.channels],
                                               resp.channels, 1, resp.next_cursor)
                          ELSE SweepAdvance(w, <<>>, 1, resp.next_cursor)
    /\ UNCHANGED <<env, addall, confirm, cancel, created, ping, listing>>

\* resp = app.client.conversations_list(..., cursor=cursor), and the loop up
\* to the worker's next call. If the call raises, the outer except prints and
\* the worker ends.
SweepList(ok) ==
    /\ sweep.pc = "list"
    /\ LET w == [sweep EXCEPT !.log = Append(@, Call("conversations_list", "", sweep.cursor, ok))]
           resp == ListResponse(sweep.cursor)
       IN  sweep' = IF ok THEN SweepAdvance([w EXCEPT !.returned = @ \o resp.channels],
                                               resp.channels, 1, resp.next_cursor)
                          ELSE [w EXCEPT !.pc = "error"]
    /\ UNCHANGED <<env, addall, confirm, cancel, created, ping, listing>>

\* Variant of the loop without the inner try: a failed join ends the worker.
SweepJoin_AbortsOnFailure(ok) ==
    /\ sweep.pc = "join"
    /\ LET cid == sweep.channels[sweep.k].id
           w == [sweep EXCEPT !.joined = IF ok THEN @ + 1 ELSE @,
                              !.log = Append(@, Call("conversations_join", "", cid, ok))]
       IN  /\ sweep' = IF ok THEN SweepAdvance(w, sweep.channels, sweep.k + 1, sweep.next_cursor)
                             ELSE [w EXCEPT !.pc = "error"]
           /\ botIn' = IF ok THEN botIn \cup {cid} ELSE botIn
    /\ UNCHANGED <<workspace, chanMembers, prompt, replies, posts, addall, confirm, cancel,
                   created, ping, listing>>

\* try: app.client.conversations_join(channel=cid); joined += 1 except: print,
\* and the loop up to the worker's next call.
SweepJoin(ok) ==
    /\ sweep.pc = "join"
    /\ LET cid == sweep.channels[sweep.k].id
           w == [sweep EXCEPT !.joined = IF ok THEN @ + 1 ELSE @,
                              !.log = Append(@, Call("conversations_join", "", cid, ok))]
       IN  /\ sweep' = SweepAdvance(w, sweep.channels, sweep.k + 1, sweep.next_cursor)
           /\ botIn' = IF ok THEN botIn \cup {cid} ELSE botIn
    /\ UNCHANGED <<workspace, chanMembers, prompt, replies, posts, addall, confirm, cancel,
                   created, ping, listing>>

\* ------------------------------------------------------------ specification
\* The workflow with one Confirm invocation, in a directory that other actors
\* change while the handlers run.
Next ==
    \/ \E u \in Users : OtherActorAdds(u)
    \/ \E k \in 1..Len(workspace) : Deactivate(k)
    \/ \E c \in Channels : AddAllStart(c)
    \/ \E ok \in BOOLEAN : AddAllUsersList(ok)
    \/ \E ok \in BOOLEAN : AddAllMembers(ok)
    \/ \E ok \in BOOLEAN : AddAllRespondComplete(ok)
    \/ \E ok \in BOOLEAN : AddAllRespondPrompt(ok)
    \/ \E ok \in BOOLEAN : AddAllExcept(ok)
    \/ ConfirmStart(1)
    \/ \E ok \in BOOLEAN : ConfirmJoin(1, ok)
    \/ \E ok \in BOOLEAN : ConfirmUsersList(1, ok)
    \/ \E ok \in BOOLEAN : ConfirmMembers(1, ok)
    \/ \E ok \in BOOLEAN : ConfirmInvite(1, ok)
    \/ \E ok \in BOOLEAN : ConfirmDelete(1, ok)
    \/ \E ok \in BOOLEAN : ConfirmPost(1, ok)
    \/ \E ok \in BOOLEAN : ConfirmExcept(1, ok)
    \/ CancelStart
    \/ \E ok \in BOOLEAN : CancelDelete(ok)

Spec == Init /\ [][Next]_vars

\* The workflow with both Confirm invocations, which may overlap; the only
\* changes to the directory are the handlers' own.
NextRepeat ==
    \/ \E c \in Channels : AddAllStart(c)
    \/ \E ok \in BOOLEAN : AddAllUsersList(ok)
    \/ \E ok \in BOOLEAN : AddAllMembers(ok)
    \/ \E ok \in BOOLEAN : AddAllRespondComplete(ok)
    \/ \E ok \in BOOLEAN : AddAllRespondPrompt(ok)
    \/ \E ok \in BOOLEAN : AddAllExcept(ok)
    \/ \E p \in ConfirmIds : ConfirmStart(p)
    \/ \E p \in ConfirmIds, ok \in BOOLEAN : ConfirmJoin(p, ok)
    \/ \E p \in ConfirmIds, ok \in BOOLEAN : ConfirmUsersList(p, ok)
    \/ \E p \in ConfirmIds, ok \in BOOLEAN : ConfirmMembers(p, ok)
    \/ \E p \in ConfirmIds, ok \in BOOLEAN : ConfirmInvite(p, ok)
    \/ \E p \in ConfirmIds, ok \in BOOLEAN : ConfirmDelete(p, ok)
    \/ \E p \in ConfirmIds, ok \in BOOLEAN : ConfirmPost(p, ok)
    \/ \E p \in ConfirmIds, ok \in BOOLEAN : ConfirmExcept(p, ok)
    \/ CancelStart
    \/ \E ok \in BOOLEAN : CancelDelete(ok)

SpecRepeat == Init /\ [][NextRepeat]_vars

\* The membership diff on its own: both copies applied to every listing of
\* distinct members over the ids 0..MaxUsers, with any flags, and every set
\* of channel member ids.
MemberRecords == {Member(i, b, d) : i \in 0..MaxUsers, b \in BOOLEAN, d \in BOOLEAN}

Listings ==
    {s \in UNION {[1..n -> MemberRecords] : n \in 0..(MaxUsers + 1)} :
        \A j, k \in 1..Len(s) : j # k => s[j].id # s[k].id}

DiffInit ==
    /\ workspace \in Listings
    /\ chanMembers \in SUBSET (0..MaxUsers)
    /\ botIn = {}
    /\ prompt = NoPrompt
    /\ replies = <<>>
    /\ posts = <<>>
    /\ addall = IdleAddAll
    /\ confirm = [p \in ConfirmIds |-> IdleConfirm]
    /\ cancel = IdleCancel
    /\ created = IdleCreated
    /\ ping = IdlePing
    /\ listing = <<>>
    /\ sweep = IdleSweep

\* /add-all up to its diff (lines 89-114), both fetches returning.
DiffAddAll(c) ==
    /\ addall.pc = "idle"
    /\ LET todo == AddAllUsersToAdd(workspace, chanMembers) IN
       addall' = [addall EXCEPT
            !.pc = AddAllBranch(todo), !.channel_id = c,
            !.all_users = workspace, !.current_members = chanMembers,
            !.users_to_add = todo,
            !.log = <<Call("ack", "", 0, TRUE), Call("users_list", "", 0, TRUE),
                      Call("conversations_members", "", c, TRUE)>>]
    /\ UNCHANGED <<env, confirm, cancel, created, ping, listing, sweep>>

\* Confirm up to its diff (lines 172-203), the join and both fetches returning.
DiffConfirm(p, c) ==
    /\ confirm[p].pc = "idle"
    /\ LET todo == ConfirmUsersToAdd(workspace, chanMembers) IN
       confirm' = [confirm EXCEPT ![p] = [@ EXCEPT
            !.pc = ConfirmBranch(todo), !.channel_id = c,
            !.all_users = workspace, !.current_members = chanMembers,
            !.users_to_add = todo,
            !.log = <<Call("ack", "", 0, TRUE), Call("conversations_join", "", c, TRUE),
                      Call("users_list", "", 0, TRUE),
                      Call("conversations_members", "", c, TRUE)>>]]
    /\ botIn' = botIn \cup {c}
    /\ UNCHANGED <<workspace, chanMembers, prompt, replies, posts, addall, cancel, created, ping, listing, sweep>>

DiffNext ==
    \/ \E c \in Channels : DiffAddAll(c)
    \/ \E c \in Channels : DiffConfirm(1, c)

SpecDiff == DiffInit /\ [][DiffNext]_vars

\* The auto-join sweep and the channel_created handler, over every listing of
\* distinct public channels cut into at most MaxPages pages, the bot being in
\* any set of channels when the process starts. The code never compares
\* channel ids, so a listing names its channels in ascending order of id.
ChannelEntries == {[id |-> i, is_archived |-> a] : i \in Channels, a \in BOOLEAN}

FlatListings ==
    {f \in UNION {[1..n -> ChannelEntries] : n \in 0..MaxChannels} :
        \A j, k \in 1..Len(f) : j < k => f[j].id < f[k].id}

\* The pages of f that end at the positions cuts[1] <= ... <= cuts[n] = Len(f).
Pages(f, cuts) ==
    [j \in 1..Len(cuts) |-> SubSeq(f, (IF j = 1 THEN 0 ELSE cuts[j - 1]) + 1, cuts[j])]

Cuts(n, len) ==
    {c \in [1..n -> 0..len] : c[n] = len /\ \A j \in 1..(n - 1) : c[j] <= c[j + 1]}

SweepInit ==
    /\ workspace = BaseWorkspace
    /\ chanMembers = {}
    /\ botIn \in SUBSET Channels
    /\ prompt = NoPrompt
    /\ replies = <<>>
    /\ posts = <<>>
    /\ addall = IdleAddAll
    /\ confirm = [p \in ConfirmIds |-> IdleConfirm]
    /\ cancel = IdleCancel
    /\ created = IdleCreated
    /\ ping = IdlePing
    /\ \E f \in FlatListings, n \in 1..MaxPages :
          \E cuts \in Cuts(n, Len(f)) : listing = Pages(f, cuts)
    /\ sweep = IdleSweep

\* The steps of the worker thread.
SweepWorker ==
    \/ Main
    \/ \E ok \in BOOLEAN : SweepList(ok)
    \/ \E ok \in BOOLEAN : SweepJoin(ok)

SweepNext ==
    \/ Main
    \/ \E ok \in BOOLEAN : SweepList(ok)
    \/ \E ok \in BOOLEAN : SweepJoin(ok)
    \/ \E cid \in Channels \cup {NoChannel}, ok \in BOOLEAN : HandleChannelCreated(cid, ok)

SpecSweep == SweepInit /\ [][SweepNext]_vars

\* The worker thread runs whenever it can: every call it makes returns or raises.
SpecSweepLive == SweepInit /\ [][SweepNext]_vars /\ WF_vars(SweepWorker)

\* The command and action handlers of one workflow, and /ping.
NextAck ==
    \/ \E c \in Channels : AddAllStart(c)
    \/ \E ok \in BOOLEAN : AddAllUsersList(ok)
    \/ \E ok \in BOOLEAN : AddAllMembers(ok)
    \/ \E ok \in BOOLEAN : AddAllRespondComplete(ok)
    \/ \E ok \in BOOLEAN : AddAllRespondPrompt(ok)
    \/ \E ok \in BOOLEAN : AddAllExcept(ok)
    \/ ConfirmStart(1)
    \/ \E ok \in BOOLEAN : ConfirmJoin(1, ok)
    \/ \E ok \in BOOLEAN : ConfirmUsersList(1, ok)
    \/ \E ok \in BOOLEAN : ConfirmMembers(1, ok)
    \/ \E ok \in BOOLEAN : ConfirmInvite(1, ok)
    \/ \E ok \in BOOLEAN : ConfirmDelete(1, ok)
    \/ \E ok \in BOOLEAN : ConfirmPost(1, ok)
    \/ \E ok \in BOOLEAN : ConfirmExcept(1, ok)
    \/ CancelStart
    \/ \E ok \in BOOLEAN : CancelDelete(ok)
    \/ PingStart
    \/ \E ok \in BOOLEAN : PingRespond(ok)

SpecAck == Init /\ [][NextAck]_vars

\* ================================================================== claims
\* Some call op of the log returned without raising.
Returned(log, op) == \E k \in 1..Len(log) : log[k].op = op /\ log[k].ok

\* Some call op (of the given kind) of the log raised.
Raised(log, op, kind) == \E k \in 1..Len(log) : log[k].op = op /\ log[k].kind = kind /\ ~log[k].ok

\* The handler has fetched the channel members, and so computed users_to_add.
AddAllDiffed == Returned(addall.log, "conversations_members")

ConfirmDiffed(p) == Returned(confirm[p].log, "conversations_members")

\* The members the diff has to leave out whatever the channel holds.
Excluded(m) == m.is_bot \/ m.deleted \/ m.id = USLACKBOT

DiffContract(result, M, C) ==
    /\ \A k \in 1..Len(result) :
          /\ result[k] \in Range(M)
          /\ result[k].id \notin C
          /\ ~result[k].is_bot
          /\ ~result[k].deleted
          /\ result[k].id # USLACKBOT
    /\ \A m \in Range(M) :
          (~Excluded(m) /\ m.id \notin C)
              => Cardinality({k \in 1..Len(result) : result[k] = m}) = 1

\* C1: for every listing M of distinct workspace members and every set C of
\* channel member ids, the diff of /add-all and the diff of Confirm hold no
\* member whose id is in C, no bot, no deleted member and not USLACKBOT, and
\* hold exactly once every other member of M.
C1_DiffContract ==
    /\ AddAllDiffed =>
          DiffContract(addall.users_to_add, addall.all_users, addall.current_members)
    /\ \A p \in ConfirmIds : ConfirmDiffed(p) =>
          DiffContract(confirm[p].users_to_add, confirm[p].all_users,
                       confirm[p].current_members)

\* Both copies have run on a listing of three members: one the filters leave
\* out though it is not in the channel, one already in the channel, and one
\* to add.
C1_Witness ==
    /\ AddAllDiffed /\ ConfirmDiffed(1)
    /\ Len(workspace) = 3
    /\ Len(addall.users_to_add) = 1 /\ confirm[1].users_to_add = addall.users_to_add
    /\ \E k \in 1..Len(workspace) : Excluded(workspace[k]) /\ workspace[k].id \notin chanMembers
    /\ \E k \in 1..Len(workspace) : ~Excluded(workspace[k]) /\ workspace[k].id \in chanMembers

\* Invite calls made for user u, over both Confirm invocations.
InviteAttempts(u) ==
    Len(SelectSeq(Invites(confirm[1].log), LAMBDA e : e.arg = u))
    + Len(SelectSeq(Invites(confirm[2].log), LAMBDA e : e.arg = u))

InvitedBy(p) == {e.arg : e \in Range(Invites(confirm[p].log))}

\* C2 as stated: a Confirm that arrives after the prompt was resolved invites
\* no member a second time: every member it invites has had one invite call
\* in all for that prompt.
C2_NeverInvitedTwice ==
    \A p \in ConfirmIds : confirm[p].after_resolved =>
        \A u \in InvitedBy(p) : InviteAttempts(u) = 1

\* C2 (amended): a Confirm that arrives after the prompt was resolved
\* re-derives the diff from the membership it fetches itself: it invites only
\* members absent from that membership, and that membership holds every
\* member whose invite had succeeded before it arrived.
C2_FreshDiffOnRepeat ==
    \A p \in ConfirmIds : (confirm[p].after_resolved /\ ConfirmDiffed(p)) =>
        /\ InvitedBy(p) \cap confirm[p].current_members = {}
        /\ confirm[p].invited_before \subseteq confirm[p].current_members
        /\ InvitedBy(p) \cap confirm[p].invited_before = {}
        /\ InvitedBy(p) \subseteq Range(Ids(confirm[p].users_to_add))

\* The second Confirm arrived after the first had resolved the prompt and
\* invited someone, and has itself invited a member.
C2_Witness ==
    /\ confirm[2].after_resolved
    /\ confirm[2].invited_before # {}
    /\ InvitedBy(2) # {}
    /\ confirm[2].pc = "done"

\* The invite loop of p has run to its end.
LoopDone(p) ==
    ConfirmDiffed(p) /\ confirm[p].users_to_add # <<>> /\ confirm[p].pc # "invite"

OkCount(calls) == Cardinality({k \in 1..Len(calls) : calls[k].ok})

FailedIds(calls) ==
    LET failed == SelectSeq(calls, LAMBDA c : ~c.ok)
    IN  [k \in 1..Len(failed) |-> failed[k].arg]

\* C3: in a Confirm whose recomputed diff is non-empty every member of the
\* diff gets exactly one invite call, in order, whichever of them fail; when
\* the loop has ended succeeded + failed is the size of the diff, succeeded is
\* the number of invite calls that returned, and every member whose invite
\* returned is in the channel.
C3_EveryMemberOneAttempt ==
    \A p \in ConfirmIds :
        (ConfirmDiffed(p) /\ confirm[p].users_to_add # <<>>) =>
            LET inv == Invites(confirm[p].log)
                todo == confirm[p].users_to_add
            IN  /\ Len(inv) <= Len(todo)
                /\ \A k \in 1..Len(inv) : inv[k].arg = todo[k].id
                /\ confirm[p].pc = "invite" => Len(inv) = confirm[p].i - 1
                /\ LoopDone(p) =>
                      /\ Len(inv) = Len(todo)
                      /\ confirm[p].added_count + Len(confirm[p].failed_users) = Len(todo)
                      /\ confirm[p].added_count = OkCount(inv)
                      /\ confirm[p].failed_users = FailedIds(inv)
                      /\ \A k \in 1..Len(inv) : inv[k].ok => inv[k].arg \in chanMembers

\* A Confirm has reported after its first invite failed and its second
\* returned.
C3_Witness ==
    /\ confirm[1].pc = "done"
    /\ Len(confirm[1].users_to_add) = 2
    /\ Len(Invites(confirm[1].log)) = 2
    /\ ~Invites(confirm[1].log)[1].ok
    /\ Invites(confirm[1].log)[2].ok
    /\ Len(posts) = 1

\* The messages Confirm p has delivered to the channel.
PostsBy(p) == SelectSeq(posts, LAMBDA m : m.by = p)

InvitedIds(p) ==
    LET inv == Invites(confirm[p].log) IN [k \in 1..Len(inv) |-> inv[k].arg]

\* Confirm p fetched the same listing and the same channel members as /add-all.
SameInputs(p) ==
    /\ AddAllDiffed /\ ConfirmDiffed(p)
    /\ confirm[p].all_users = addall.all_users
    /\ confirm[p].current_members = addall.current_members

\* C4: when Confirm finds the workspace and the channel as /add-all found
\* them and no invite fails, the members it invites are the members the
\* prompt lists, the number of invite calls is the count the prompt shows,
\* and the outcome message states that count as added and no failures.
C4_UnchangedInputsInvitePromptList ==
    \A p \in ConfirmIds : (prompt.state # "none" /\ SameInputs(p)) =>
        /\ confirm[p].users_to_add # <<>>
        /\ (LoopDone(p) /\ \A k \in 1..Len(InvitedIds(p)) : Invites(confirm[p].log)[k].ok) =>
              /\ InvitedIds(p) = prompt.mentions
              /\ Len(InvitedIds(p)) = prompt.count
              /\ \A k \in 1..Len(PostsBy(p)) :
                    PostsBy(p)[k].msg = [kind |-> "success", added |-> prompt.count,
                                         has_failed |-> FALSE, failed |-> 0]

\* The prompt listed two members; Confirm found nothing changed, invited both
\* and reported.
C4_Witness ==
    /\ prompt.count = 2
    /\ SameInputs(1)
    /\ confirm[1].pc = "done"
    /\ InvitedIds(1) = prompt.mentions
    /\ Len(PostsBy(1)) = 1
    /\ PostsBy(1)[1].msg.added = 2

Responds(log) == SelectSeq(log, LAMBDA c : c.op = "respond")

\* C5: when the diff of /add-all is empty no prompt is created, the handler
\* makes no invite, join or channel post, and the reply it sends is the
\* "already complete" one, which is the one reply the user gets once that
\* call has returned.
C5_EmptyDiffNoPrompt ==
    (AddAllDiffed /\ addall.users_to_add = <<>>) =>
        LET r == Responds(addall.log) IN
        /\ prompt.state = "none"
        /\ \A k \in 1..Len(r) : r[k].kind # "prompt"
        /\ Mutations(addall.log) = <<>>
        /\ r # <<>> => r[1].kind = "complete"
        /\ addall.pc = "respond_complete" <=> r = <<>>
        /\ (r # <<>> /\ r[1].ok) =>
              /\ Len(r) = 1
              /\ replies = <<"complete">>
              /\ addall.pc = "done"

\* /add-all found a non-excluded member, all of them in the channel, and
\* has replied "already complete".
C5_Witness ==
    /\ AddAllDiffed
    /\ addall.users_to_add = <<>>
    /\ \E k \in 1..Len(addall.all_users) : ~Excluded(addall.all_users[k])
    /\ addall.pc = "done"
    /\ replies = <<"complete">>

\* The calls of log after its first call op.
After(log, op) ==
    LET k0 == CHOOSE k \in 1..Len(log) : log[k].op = op /\ \A j \in 1..(k - 1) : log[j].op # op
    IN  SubSeq(log, k0 + 1, Len(log))

\* C6: when the prompt listed members but the diff recomputed by Confirm is
\* empty, Confirm makes no invite call; it removes the prompt and then posts
\* "already complete", and once both calls have returned that is its one
\* message and it has sent no error text.
C6_EmptyAtConfirmAlreadyComplete ==
    \A p \in ConfirmIds :
        (ConfirmDiffed(p) /\ confirm[p].users_to_add = <<>> /\ prompt.count > 0) =>
            LET tail == After(confirm[p].log, "conversations_members") IN
            /\ Invites(confirm[p].log) = <<>>
            /\ confirm[p].pc = "delete_empty" <=> tail = <<>>
            /\ Len(tail) >= 1 =>
                  tail[1].op = "requests_post" /\ tail[1].kind = "delete_original"
            /\ (Len(tail) >= 2 /\ tail[1].ok) =>
                  tail[2].op = "chat_postMessage" /\ tail[2].kind = "already"
            /\ (Len(tail) >= 2 /\ tail[1].ok /\ tail[2].ok) =>
                  /\ Len(tail) = 2
                  /\ confirm[p].pc = "done"
                  /\ prompt.state = "deleted"
                  /\ Len(PostsBy(p)) = 1
                  /\ PostsBy(p)[1].msg.kind = "already"
                  /\ PostsBy(p)[1].channel = prompt.value

\* The prompt listed a member, another actor added it, and Confirm has
\* reported "already complete" without an invite.
C6_Witness ==
    /\ prompt.count > 0
    /\ ConfirmDiffed(1)
    /\ confirm[1].users_to_add = <<>>
    /\ confirm[1].pc = "done"
    /\ Len(PostsBy(1)) = 1
    /\ PostsBy(1)[1].msg.kind = "already"

\* C7: every step of the Cancel handler leaves the workspace, the channel
\* members, the bot's channels and the channel's messages as they are and
\* makes no invite, join or channel post; the step that completes the handler
\* removes the prompt.
C7_CancelRemovesPromptOnly ==
    [][cancel' # cancel =>
          /\ workspace' = workspace
          /\ chanMembers' = chanMembers
          /\ botIn' = botIn
          /\ posts' = posts
          /\ replies' = replies
          /\ Mutations(cancel'.log) = <<>>
          /\ Invites(cancel'.log) = <<>>
          /\ cancel'.pc = "done" => (prompt.state = "shown" => prompt'.state = "deleted")
          /\ cancel'.pc = "done" => prompt'.state # "shown"
          /\ cancel'.pc # "done" => prompt' = prompt]_vars

\* Cancel was pressed on a prompt listing members and has removed it, with
\* the channel as it was when the prompt was built.
C7_Witness ==
    /\ cancel.pc = "done"
    /\ prompt.state = "deleted"
    /\ prompt.count > 0
    /\ confirm[1].pc = "idle"
    /\ chanMembers = addall.current_members

\* A call of /add-all's prompt building has raised.
FailedBuilding ==
    \/ Raised(addall.log, "users_list", "")
    \/ Raised(addall.log, "conversations_members", "")
    \/ Raised(addall.log, "respond", "prompt")

ErrorReplies(log) == SelectSeq(log, LAMBDA c : c.op = "respond" /\ c.kind = "error")

\* C8: when listing the workspace, listing the channel or delivering the
\* prompt fails in /add-all, the handler sends one error reply as its last
\* call and nothing more (the user has that one reply once the call has
\* returned), no prompt exists, and the handler has made no invite, join or
\* channel post.
C8_BuildFailureOneErrorReply ==
    FailedBuilding =>
        LET e == ErrorReplies(addall.log) IN
        /\ prompt.state = "none"
        /\ Mutations(addall.log) = <<>>
        /\ addall.pc \in {"except", "done", "raised"}
        /\ addall.pc = "except" => (e = <<>> /\ replies = <<>>)
        /\ addall.pc \in {"done", "raised"} =>
              /\ Len(e) = 1
              /\ addall.log[Len(addall.log)] = e[1]
        /\ addall.pc = "done" => (e[1].ok /\ replies = <<"error">>)
        /\ addall.pc = "raised" => (~e[1].ok /\ replies = <<>>)

\* Delivering the prompt failed, and the user has the error reply.
C8_Witness ==
    /\ Raised(addall.log, "respond", "prompt")
    /\ addall.pc = "done"
    /\ replies = <<"error">>
    /\ prompt.state = "none"

\* C9 as stated: whichever outbound call fails, no handler lets the exception
\* out: /add-all, Confirm and Cancel all return normally.
C9_NoFailureLeavesAHandler ==
    /\ addall.pc # "raised"
    /\ cancel.pc # "raised"
    /\ \A p \in ConfirmIds : confirm[p].pc # "raised"

\* The calls that remove or replace the prompt or post to the channel.
IsReport(c) == c.op \in {"requests_post", "chat_postMessage"}

\* C10: in a Confirm that reaches the invite loop nothing is removed or
\* posted before the last invite call; after it the handler removes the
\* prompt and then posts, and once both calls have returned the prompt is
\* gone and the channel holds exactly one message of this Confirm, stating
\* the number of invites that returned and, only if some failed, the number
\* that failed.
C10_ReportAfterLastInvite ==
    \A p \in ConfirmIds :
        (ConfirmDiffed(p) /\ confirm[p].users_to_add # <<>>) =>
            LET log == confirm[p].log
                n == Len(confirm[p].users_to_add)
                inv == Invites(log)
                tail == SelectSeq(log, IsReport)
            IN  /\ \A k \in 1..Len(log) :
                      IsReport(log[k]) => Len(Invites(SubSeq(log, 1, k - 1))) = n
                /\ Len(PostsBy(p)) <= 1
                /\ confirm[p].pc = "delete" <=> (Len(inv) = n /\ tail = <<>>)
                /\ Len(tail) >= 1 => tail[1].kind = "delete_original"
                /\ (Len(tail) >= 2 /\ tail[1].ok) =>
                      tail[2].op = "chat_postMessage" /\ tail[2].kind = "success"
                /\ (Len(tail) >= 2 /\ tail[1].ok /\ tail[2].ok) =>
                      /\ Len(tail) = 2
                      /\ confirm[p].pc = "done"
                      /\ prompt.state = "deleted"
                      /\ Len(PostsBy(p)) = 1
                      /\ PostsBy(p)[1].channel = prompt.value
                      /\ PostsBy(p)[1].msg =
                            [kind |-> "success", added |-> OkCount(inv),
                             has_failed |-> OkCount(inv) < n,
                             failed |-> n - OkCount(inv)]

\* A Confirm has invited two members, one invite failing, removed the prompt
\* and posted "1 added, 1 failed".
C10_Witness ==
    /\ confirm[1].pc = "done"
    /\ Len(Invites(confirm[1].log)) = 2
    /\ OkCount(Invites(confirm[1].log)) = 1
    /\ prompt.state = "deleted"
    /\ Len(PostsBy(1)) = 1
    /\ PostsBy(1)[1].msg.added = 1
    /\ PostsBy(1)[1].msg.has_failed
    /\ PostsBy(1)[1].msg.failed = 1

\* A call that removes or replaces the prompt has raised in Confirm p.
PromptCallRaised(p) ==
    \/ Raised(confirm[p].log, "requests_post", "delete_original")
    \/ Raised(confirm[p].log, "requests_post", "replace_original")

\* The fallback text has replaced the prompt on behalf of Confirm p.
FallbackDelivered(p) ==
    \E k \in 1..Len(confirm[p].log) :
        /\ confirm[p].log[k].op = "requests_post"
        /\ confirm[p].log[k].kind = "replace_original"
        /\ confirm[p].log[k].ok

\* C11 as stated: when a call that removes or replaces the prompt fails in a
\* Confirm, that Confirm ends with the fallback reply delivered to the user.
C11_PromptFailureProducesFallback ==
    \A p \in ConfirmIds :
        (PromptCallRaised(p) /\ confirm[p].pc \in {"done", "raised"}) => FallbackDelivered(p)

\* What the code does for the removal: when delete_original raises, the next
\* and last call of the handler is the replacement by the error text, nothing
\* is posted to the channel, and the text is delivered when that call returns.
RemovalFailureFallsBack ==
    \A p \in ConfirmIds :
        Raised(confirm[p].log, "requests_post", "delete_original") =>
            LET tail == After(confirm[p].log, "requests_post") IN
            /\ PostsBy(p) = <<>>
            /\ confirm[p].pc = "except" <=> tail = <<>>
            /\ tail # <<>> =>
                  /\ Len(tail) = 1
                  /\ tail[1].op = "requests_post" /\ tail[1].kind = "replace_original"
                  /\ tail[1].ok <=> confirm[p].pc = "done"
                  /\ ~tail[1].ok <=> confirm[p].pc = "raised"

\* The join calls and the listing calls the worker has made.
SweepJoins == SelectSeq(sweep.log, LAMBDA c : c.op = "conversations_join")

SweepLists == SelectSeq(sweep.log, LAMBDA c : c.op = "conversations_list")

\* The channels returned so far that were neither flagged member nor archived.
SweepEligible == SelectSeq(sweep.returned, LAMBDA ch : ~ch.is_member /\ ~ch.is_archived)

\* The channel entries of all the pages of the listing, in order.
RECURSIVE Flatten(_)
Flatten(pages) == IF pages = <<>> THEN <<>> ELSE Head(pages) \o Flatten(Tail(pages))

\* C12: in one sweep over a listing of distinct channels, the join calls are
\* the channels returned so far that were flagged neither member nor
\* archived, one call each in the order returned, whichever of the calls
\* fail; a flagged channel gets no call; whenever the worker asks for a page
\* or has ended, every such channel of the pages returned has had its call,
\* and a sweep that completes has been returned every channel of the listing.
C12_SweepJoinsEachEligibleOnce ==
    LET joins == SweepJoins
        todo == SweepEligible
    IN  /\ Len(joins) <= Len(todo)
        /\ \A k \in 1..Len(joins) : joins[k].arg = todo[k].id
        /\ \A k \in 1..Len(sweep.returned) :
              (sweep.returned[k].is_member \/ sweep.returned[k].is_archived) =>
                  \A j \in 1..Len(joins) : joins[j].arg # sweep.returned[k].id
        /\ \A u \in Channels : Cardinality({j \in 1..Len(joins) : joins[j].arg = u}) <= 1
        /\ sweep.pc = "join" =>
              /\ Len(joins) < Len(todo)
              /\ todo[Len(joins) + 1].id = sweep.channels[sweep.k].id
        /\ sweep.pc \in {"list", "done", "error"} => Len(joins) = Len(todo)
        /\ sweep.joined = OkCount(joins)
        /\ sweep.pc = "done" =>
              [k \in 1..Len(sweep.returned) |-> sweep.returned[k].id]
                  = [k \in 1..Len(Flatten(listing)) |-> Flatten(listing)[k].id]

\* A sweep has completed over two pages: the first join of the first page
\* failed, the next channel of that page and a channel of the second page
\* were tried all the same.
C12_Witness ==
    /\ sweep.pc = "done"
    /\ Len(listing) = 2
    /\ Len(listing[1]) = 2 /\ Len(listing[2]) = 1
    /\ Len(SweepJoins) = 3
    /\ ~SweepJoins[1].ok
    /\ SweepJoins[2].ok
    /\ SweepJoins[3].arg = listing[2][1].id

\* The worker has ended: after the last page (line 54) or in the outer
\* except (line 56).
SweepStopped == sweep.pc \in {"done", "error"}

\* The listing calls follow the cursors: the first call carries no cursor,
\* every further call carries the non-empty cursor the previous call
\* returned, and the worker completes only on the page without a cursor.
SweepFollowsCursor ==
    LET lists == SweepLists IN
    /\ Len(lists) <= Len(listing)
    /\ \A k \in 1..Len(lists) : lists[k].arg = k - 1
    /\ \A k \in 2..Len(lists) : lists[k - 1].ok /\ lists[k].arg # 0
    /\ (sweep.pc = "list" /\ lists # <<>>) =>
          (sweep.cursor # 0 /\ sweep.cursor = sweep.next_cursor)
    /\ sweep.pc = "done" =>
          /\ Len(lists) = Len(listing)
          /\ \A k \in 1..Len(lists) : lists[k].ok
          /\ sweep.next_cursor = 0

\* C13: over a listing of finitely many pages the worker, running whenever it
\* can, eventually ends; it completes only after the page that carries no
\* next cursor, and it asks for a further page only with the non-empty
\* cursor the previous response carried.
C13_SweepTerminates == <>SweepStopped /\ []SweepFollowsCursor

\* The worker has completed a listing of two pages with two listing calls.
C13_Witness ==
    /\ sweep.pc = "done"
    /\ Len(listing) = 2
    /\ Len(SweepLists) = 2
    /\ SweepLists[2].arg = 1
    /\ SweepJoins # <<>>

\* The log of an invocation that has begun opens with ack() and holds no
\* other ack().
AckedFirst(pc, log) ==
    pc # "idle" =>
        /\ log # <<>>
        /\ log[1].op = "ack"
        /\ \A k \in 2..Len(log) : log[k].op # "ack"

\* C14: every invocation of a command (/add-all, /ping) and of an action
\* (Confirm, Cancel) calls ack() once, before its first Directory Client
\* call, reply, or post that removes or replaces the prompt; no reply, prompt
\* or channel message exists before some invocation was acknowledged.
C14_AckFirstAndOnce ==
    /\ AckedFirst(addall.pc, addall.log)
    /\ AckedFirst(ping.pc, ping.log)
    /\ AckedFirst(cancel.pc, cancel.log)
    /\ \A p \in ConfirmIds : AckedFirst(confirm[p].pc, confirm[p].log)
    /\ addall.pc = "idle" => (prompt = NoPrompt /\ posts = <<>> /\ botIn = {})
    /\ (addall.pc = "idle" /\ ping.pc = "idle") => replies = <<>>

\* All four handlers have run to their end, Confirm with an invite.
C14_Witness ==
    /\ addall.pc = "done"
    /\ ping.pc = "done"
    /\ cancel.pc = "done"
    /\ confirm[1].pc = "done"
    /\ Invites(confirm[1].log) # <<>>
    /\ Len(posts) = 1

\* The place of a call in the order of Confirm's steps.
Stage(c) ==
    CASE c.op = "ack" -> 0
      [] c.op = "conversations_join" -> 1
      [] c.op = "users_list" -> 2
      [] c.op = "conversations_members" -> 3
      [] c.op = "conversations_invite" -> 4
      [] c.op = "requests_post" /\ c.kind = "delete_original" -> 5
      [] c.op = "chat_postMessage" -> 6
      [] OTHER -> 7

\* The calls of a Confirm so far are in the order join, users_list,
\* conversations_members, invites, removal, post; only invites repeat; the
\* invites come after the invocation's own conversations_members has
\* returned, and go to the members of the diff of what it fetched itself.
ConfirmInOrder(p) ==
    LET log == confirm[p].log IN
    /\ \A j, k \in 1..Len(log) :
          j < k => (Stage(log[j]) < Stage(log[k])
                    \/ (Stage(log[j]) = 4 /\ Stage(log[k]) = 4))
    /\ Len(log) >= 2 => log[2].op = "conversations_join"
    /\ Len(log) >= 3 => log[3].op = "users_list"
    /\ (Len(log) >= 4 /\ log[3].ok) => log[4].op = "conversations_members"
    /\ \A k \in 1..Len(log) :
          log[k].op = "conversations_invite" =>
              (k > 4 /\ log[3].ok /\ log[4].op = "conversations_members" /\ log[4].ok)
    /\ ConfirmDiffed(p) =>
          /\ confirm[p].users_to_add =
                ConfirmUsersToAdd(confirm[p].all_users, confirm[p].current_members)
          /\ Len(InvitedIds(p)) <= Len(confirm[p].users_to_add)
          /\ \A k \in 1..Len(InvitedIds(p)) : InvitedIds(p)[k] = confirm[p].users_to_add[k].id

\* A step of Confirm p is one call, made after the calls before it have
\* ended; what it fetches is the workspace and the channel as they are then.
ConfirmOneCallAtATime(p) ==
    confirm'[p] # confirm[p] =>
        /\ Len(confirm'[p].log) = Len(confirm[p].log) + 1
        /\ SubSeq(confirm'[p].log, 1, Len(confirm[p].log)) = confirm[p].log
        /\ (confirm[p].pc = "users_list" /\ confirm'[p].pc = "members") =>
              confirm'[p].all_users = workspace
        /\ (confirm[p].pc = "members" /\ confirm'[p].pc # "except") =>
              /\ confirm'[p].current_members = chanMembers
              /\ confirm'[p].users_to_add = ConfirmUsersToAdd(confirm[p].all_users, chanMembers)

\* C15: within one Confirm the calls are made one at a time in the order
\* join, fetch of the workspace members, fetch of the channel members, invite
\* loop, report; no invite precedes the return of that invocation's own fetch
\* of the channel members; the members invited are the diff of what the
\* invocation fetched itself, whatever the prompt listed.
C15_ConfirmStepsInOrder ==
    /\ [](\A p \in ConfirmIds : ConfirmInOrder(p))
    /\ [][\A p \in ConfirmIds : ConfirmOneCallAtATime(p)]_vars

\* The prompt listed two members; one was added by another actor before
\* Confirm fetched the channel, and Confirm invited the other one only.
C15_Witness ==
    /\ confirm[1].pc = "done"
    /\ Len(prompt.mentions) = 2
    /\ Len(InvitedIds(1)) = 1
    /\ InvitedIds(1)[1] = prompt.mentions[2]
    /\ Len(PostsBy(1)) = 1

\* The ids of the diff of what Confirm p fetched itself.
OwnDiffIds(p) ==
    {confirm[p].all_users[k].id : k \in
        {j \in 1..Len(confirm[p].all_users) :
            /\ ~Excluded(confirm[p].all_users[j])
            /\ confirm[p].all_users[j].id \notin confirm[p].current_members}}

\* This step is an invite by Confirm p of a member who is in the channel
\* already.
RedundantInviteStep(p) ==
    /\ confirm[p].pc = "invite"
    /\ confirm'[p] # confirm[p]
    /\ confirm[p].users_to_add[confirm[p].i].id \in chanMembers

\* What the code does with overlapping Confirms: each invites the members
\* absent from the membership it fetched itself, and a member is invited by
\* both only if absent from both memberships fetched.
ConcurrentConfirmsInviteOwnDiff ==
    /\ \A p \in ConfirmIds : ConfirmDiffed(p) =>
          /\ InvitedBy(p) \subseteq OwnDiffIds(p)
          /\ LoopDone(p) => InvitedBy(p) = OwnDiffIds(p)
    /\ \A u \in InvitedBy(1) \cap InvitedBy(2) :
          u \notin confirm[1].current_members /\ u \notin confirm[2].current_members

\* C16 as stated: with two overlapping Confirms each invites the members
\* absent from the membership it fetched itself, a member is invited by both
\* only if absent from both memberships, and an invite of a member who is in
\* the channel already adds nothing to the failed of the invocation's tally.
C16_RedundantInviteNotAFailure ==
    /\ []ConcurrentConfirmsInviteOwnDiff
    /\ [][\A p \in ConfirmIds :
            RedundantInviteStep(p) => confirm'[p].failed_users = confirm[p].failed_users]_vars

\* The position in the listing M of the member with id i.
Pos(M, i) == CHOOSE k \in 1..Len(M) : M[k].id = i

\* The members of result stand in the order they have in the listing M.
KeepsListingOrder(result, M) ==
    \A j, k \in 1..Len(result) :
        j < k => Pos(M, result[j].id) < Pos(M, result[k].id)

\* C17: the diff keeps the order of the workspace listing; computing it again
\* on the inputs a handler used gives the sequence the handler got; and on
\* the same listing and channel members the copy in /add-all and the copy in
\* Confirm give the same sequence.
C17_DiffOrderStable ==
    /\ AddAllDiffed =>
          /\ KeepsListingOrder(addall.users_to_add, addall.all_users)
          /\ AddAllUsersToAdd(addall.all_users, addall.current_members) = addall.users_to_add
          /\ ConfirmUsersToAdd(addall.all_users, addall.current_members) = addall.users_to_add
    /\ \A p \in ConfirmIds : ConfirmDiffed(p) =>
          /\ KeepsListingOrder(confirm[p].users_to_add, confirm[p].all_users)
          /\ ConfirmUsersToAdd(confirm[p].all_users, confirm[p].current_members)
                = confirm[p].users_to_add
          /\ AddAllUsersToAdd(confirm[p].all_users, confirm[p].current_members)
                = confirm[p].users_to_add
          /\ SameInputs(p) => confirm[p].users_to_add = addall.users_to_add

\* Both copies have run on a listing of three members in which the member
\* with the larger id comes first and an excluded member stands between the
\* two to add: both returned the first and the third, in that order.
C17_Witness ==
    /\ AddAllDiffed /\ ConfirmDiffed(1)
    /\ Len(workspace) = 3
    /\ Excluded(workspace[2])
    /\ workspace[1].id > workspace[3].id
    /\ addall.users_to_add = <<workspace[1], workspace[3]>>
    /\ confirm[1].users_to_add = <<workspace[1], workspace[3]>>

\* C18 as stated: a Confirm calls conversations_join only when the bot is
\* not in the channel.
C18_JoinsOnlyIfNotMember ==
    [][\A p \in ConfirmIds :
          (confirm[p].pc = "join" /\ confirm'[p] # confirm[p]) =>
              confirm[p].channel_id \notin botIn]_vars

\* Confirm p has made a call other than the join that raised.
RaisedAfterJoin(p) == \E k \in 3..Len(confirm[p].log) : ~confirm[p].log[k].ok

\* C18 (amended): every Confirm calls conversations_join first, whether or
\* not the bot is in the channel; whether that call returns or raises, the
\* next call is the fetch of the workspace members, the diff is recomputed
\* from what the invocation fetches, and the handler takes its error branch
\* only when a later call raises.
C18_JoinAlwaysTriedFailureTolerated ==
    \A p \in ConfirmIds : confirm[p].pc # "idle" =>
        LET log == confirm[p].log IN
        /\ confirm[p].pc = "join" <=> Len(log) = 1
        /\ Len(log) >= 2 => log[2].op = "conversations_join"
        /\ Len(log) >= 3 => log[3].op = "users_list"
        /\ (Len(log) >= 3 /\ log[3].ok) => confirm[p].pc # "users_list"
        /\ (confirm[p].pc \in {"except", "raised"} \/ FallbackDelivered(p)) => RaisedAfterJoin(p)
        /\ (ConfirmDiffed(p) /\ ~log[2].ok) =>
              /\ confirm[p].users_to_add =
                    ConfirmUsersToAdd(confirm[p].all_users, confirm[p].current_members)
              /\ LoopDone(p) => Len(Invites(log)) = Len(confirm[p].users_to_add)
        /\ (confirm[p].pc = "done" /\ ~RaisedAfterJoin(p)) => Len(PostsBy(p)) = 1

\* The join of a Confirm raised; the Confirm went on to fetch, invited two
\* members and posted its report.
C18_Witness ==
    /\ confirm[1].pc = "done"
    /\ ~confirm[1].log[2].ok
    /\ Len(Invites(confirm[1].log)) = 2
    /\ confirm[1].added_count = 2
    /\ Len(PostsBy(1)) = 1
    /\ PostsBy(1)[1].msg.added = 2

\* This step is a run of the channel_created handler.
CreatedStep == created' # created

\* What one run of the channel_created handler does: at most one call, a
\* join of the event's channel and none when the event names no channel; the
\* bot's channels change by that channel at most, and not at all when the
\* join raised; the sweep is left as it is.
CreatedJoinsOnlyItsChannel ==
    CreatedStep =>
        /\ created'.pc = "done"
        /\ sweep' = sweep /\ listing' = listing
        /\ created'.cid = NoChannel => (created'.log = <<>> /\ botIn' = botIn)
        /\ created'.cid # NoChannel =>
              /\ Len(created'.log) = 1
              /\ created'.log[1].op = "conversations_join"
              /\ created'.log[1].arg = created'.cid
              /\ botIn' = IF created'.log[1].ok THEN botIn \cup {created'.cid} ELSE botIn

\* C19: a channel_created notification causes at most one join call, for
\* the channel of the event (none when the event names no channel), never
\* starts or changes a sweep, and a failed join is not tried again; the
\* sweep is started once, by __main__, before any event is served.
C19_CreatedJoinsOnceSweepStartsOnce ==
    /\ [](sweep.started <= 1)
    /\ [](created.pc # "idle" => sweep.started = 1)
    /\ [](sweep.pc # "idle" <=> sweep.started = 1)
    /\ [][sweep'.started # sweep.started => (sweep.pc = "idle" /\ created.pc = "idle")]_vars
    /\ [][CreatedJoinsOnlyItsChannel]_vars

\* The handler has run for a new channel, its join raised and the bot is
\* not in that channel, after the sweep had completed.
C19_Witness ==
    /\ created.pc = "done"
    /\ created.cid # NoChannel
    /\ Len(created.log) = 1
    /\ ~created.log[1].ok
    /\ created.cid \notin botIn
    /\ sweep.started = 1
    /\ sweep.pc = "done"

\* A listing call of the sweep has raised.
SweepListFailed == \E k \in 1..Len(SweepLists) : ~SweepLists[k].ok

\* C20: when a listing call of the sweep raises, on whichever page, that
\* call is the worker's last: it asks for no later page and makes no further
\* join, so no channel of the pages not returned is joined by the sweep;
\* the channels it joined before stay joined; and the worker ends in its
\* except branch. The worker ends there for no other reason.
C20_ListFailureEndsSweep ==
    /\ SweepListFailed =>
          /\ sweep.pc = "error"
          /\ sweep.log[Len(sweep.log)].op = "conversations_list"
          /\ ~sweep.log[Len(sweep.log)].ok
          /\ \A k \in 1..(Len(sweep.log) - 1) : sweep.log[k].ok \/ sweep.log[k].op # "conversations_list"
          /\ Len(sweep.returned) = Len(Flatten(SubSeq(listing, 1, Len(SweepLists) - 1)))
          /\ \A j \in Len(SweepLists)..Len(listing) : \A k \in 1..Len(listing[j]) :
                \A h \in 1..Len(SweepJoins) : SweepJoins[h].arg # listing[j][k].id
          /\ \A h \in 1..Len(SweepJoins) : SweepJoins[h].ok => SweepJoins[h].arg \in botIn
    /\ sweep.pc = "error" => SweepListFailed

\* The sweep joined a channel of the first page, and the listing call for the
\* second page raised: the worker has ended, and the second page holds a
\* channel, not archived, that the bot is not in.
C20_Witness ==
    /\ sweep.pc = "error"
    /\ Len(SweepLists) = 2
    /\ Len(SweepJoins) >= 1
    /\ SweepJoins[1].ok
    /\ \E k \in 1..Len(listing[2]) :
          ~listing[2][k].is_archived /\ listing[2][k].id \notin botIn

====
